---- MODULE Spec2Model ----
(***************************************************************************)
(* A model of the edge proxy of src/index.ts: the fetch event listener,    *)
(* handleRequest and its three stages (container registry, API, generic),  *)
(* the registry authentication relay (handleV2Auth, handleAuth,            *)
(* fetchToken), the upstream fetcher (fetchAndModifyResponse) and the      *)
(* response rewriting (modifyResponse, rewriteHTML).                       *)
(*                                                                         *)
(* Representation.  A string that the code only copies or compares is a    *)
(* TLA+ string.  A string that the code takes apart is kept in the pieces  *)
(* the code looks at:                                                      *)
(*   - a hostname is its sequence of DNS labels  (hostname.split('.')),    *)
(*   - a pathname is its sequence of segments: "/" is <<>>, "/v2/" is       *)
(*     <<"v2", "">>, "/v2/auth" is <<"v2", "auth">>,                       *)
(*   - a query string is its sequence of <<key, value>> pairs,             *)
(*   - a header value is its sequence of lexical tokens (the string is     *)
(*     their concatenation, the empty string is <<>>),                     *)
(*   - a body is a sequence of nodes [attr, lead, rest]: the text `rest`   *)
(*     when attr = "", and else the markup  attr="lead rest".              *)
(* Header names are stored lower-cased, as the Headers class stores them.  *)
(* An outbound fetch completes atomically: its reply is either a whole     *)
(* response (status, headers and body) or a network error.                 *)
(***************************************************************************)
EXTENDS Naturals, Sequences, FiniteSets, TLC

VARIABLES
    pc,        \* where the handling of the current request stands
    request,   \* the inbound Request of the fetch event
    entered,   \* the stages handleRequest has entered, in order
    returned,  \* the stages that returned null ("not applicable"), in order
    calls,     \* the outbound fetch calls issued so far, in order
    replies,   \* the replies received for them, in order
    locals,    \* the locals of the suspended async function
    response,  \* the Response handed to respondWith, once there is one
    producer,  \* the stage (or "home") whose code produced that Response
    suspended  \* the other invocations of handleRequest, each waiting at an await

vars == <<pc, request, entered, returned, calls, replies, locals, response, producer,
          suspended>>

-----------------------------------------------------------------------------
(* Bounds of the model *)

\* the most optional headers an upstream reply carries
MaxRespHeaders == 1

\* the most fetch events whose handling is under way at the same time
MaxConcurrent == 2

-----------------------------------------------------------------------------
(* Strings *)

RECURSIVE JoinWith(_, _)
JoinWith(seq, sep) ==
    IF seq = <<>> THEN ""
    ELSE IF Len(seq) = 1 THEN seq[1]
    ELSE seq[1] \o sep \o JoinWith(Tail(seq), sep)

\* the string a token sequence stands for
Str(tokens) == JoinWith(tokens, "")

EmptyHeaders == [n \in {} |-> <<>>]

\* Headers.get(name): null when the header is absent
Null == <<"\\null">>
Get(headers, name) == IF name \in DOMAIN headers THEN headers[name] ELSE Null

\* the case folding the Headers class applies to the names the code writes
LowerCase(name) ==
    CASE name = "Accept" -> "accept"
      [] name = "Content-Type" -> "content-type"
      [] name = "Content-Length" -> "content-length"
      [] name = "User-Agent" -> "user-agent"
      [] name = "WWW-Authenticate" -> "www-authenticate"
      [] name = "Www-Authenticate" -> "www-authenticate"
      [] name = "Authorization" -> "authorization"
      [] name = "Location" -> "location"
      [] name = "Content-Encoding" -> "content-encoding"
      [] name = "Access-Control-Allow-Origin" -> "access-control-allow-origin"
      [] name = "Access-Control-Allow-Methods" -> "access-control-allow-methods"
      [] name = "Access-Control-Allow-Headers" -> "access-control-allow-headers"
      [] name = "Access-Control-Max-Age" -> "access-control-max-age"
      [] OTHER -> name

\* headers.set(name, value)
Set(headers, name, value) == (LowerCase(name) :> value) @@ headers

-----------------------------------------------------------------------------
(* Configuration *)

errorPageMessage == "\\u65e0\\u6cd5\\u8bbf\\u95ee\\u8bf7\\u6c42\\u7684\\u8d44\\u6e90"
errorPageStatus == 500
ASSET_URL == "https://daiaji.github.io/cf-proxy/"
GITHUB_BASE_URL == "https://cdn.jsdelivr.net/gh"

\* The route tables are configuration supplied from outside the source file:
\* hostname or first label -> upstream base URL (its origin and path prefix).
ROUTES ==
    ( "quay" :> [origin |-> "https://quay.io", path |-> ""] ) @@
    ( "both.proxy.example" :> [origin |-> "https://registry-1.docker.io", path |-> ""] )

API_ROUTES ==
    ( "gemini.proxy.example" :> [origin |-> "https://generativelanguage.googleapis.com", path |-> ""] ) @@
    ( "both" :> [origin |-> "https://api.example", path |-> "/v1"] )

Undefined == [origin |-> "", path |-> ""]

\* !upstream: undefined, or the empty string
Falsy(upstream) == upstream.origin \o upstream.path = ""

\* routes[hostname] || routes[hostname.split('.')[0]]
getRoutes(routes, hostname) ==
    LET full  == JoinWith(hostname, ".")
        first == hostname[1]
        Lookup(key) == IF key \in DOMAIN routes THEN routes[key] ELSE Undefined
    IN  IF ~Falsy(Lookup(full)) THEN Lookup(full) ELSE Lookup(first)

-----------------------------------------------------------------------------
(* URLs *)

\* originalUrl.pathname, originalUrl.search and originalUrl.origin as strings
Pathname(url) == "/" \o JoinWith(url.pathname, "/")

SearchString(params) ==
    IF params = <<>> THEN ""
    ELSE "?" \o JoinWith([i \in 1..Len(params) |-> params[i][1] \o "=" \o params[i][2]], "&")

Origin(url) == url.protocol \o "//" \o JoinWith(url.hostname, ".")

\* searchParams.get(key): the value of the first parameter named key, or null
RECURSIVE SearchGet(_, _)
SearchGet(params, key) ==
    IF params = <<>> THEN "\\null"
    ELSE IF params[1][1] = key THEN params[1][2]
    ELSE SearchGet(Tail(params), key)

\* url.searchParams.set(key, value): the first parameter named key gets the
\* value and the others named key go; appended when there is none
SearchSet(params, key, value) ==
    IF \E i \in 1..Len(params) : params[i][1] = key
    THEN LET first == CHOOSE i \in 1..Len(params) :
                          /\ params[i][1] = key
                          /\ \A j \in 1..(i-1) : params[j][1] # key
             keep(i) == i = first \/ params[i][1] # key
             idx == SelectSeq([i \in 1..Len(params) |-> i], keep)
         IN  [n \in 1..Len(idx) |-> IF idx[n] = first THEN <<key, value>> ELSE params[idx[n]]]
    ELSE Append(params, <<key, value>>)

\* new URL(string) for the absolute URL strings of the model; every other
\* string makes the constructor throw a TypeError
UrlTable ==
    ( "https://auth.example/token" :>
        [origin |-> "https://auth.example", pathname |-> "/token", search |-> <<>>] ) @@
    ( "https://daiaji.github.io/cf-proxy/index.html" :>
        [origin |-> "https://daiaji.github.io", pathname |-> "/cf-proxy/index.html", search |-> <<>>] )

IsUrl(string) == string \in DOMAIN UrlTable

\* the emptiness test that looks at the path alone
TargetIsEmptyPath(url) == url.pathname = <<>>

\* let targetUrl = originalUrl.pathname.slice(1) + originalUrl.search
\* (the path part, as segments; the search part stays originalUrl's)
TargetIsEmpty(url) == url.pathname = <<>> /\ SearchString(url.search) = ""

\* targetUrl.startsWith('https://') || targetUrl.startsWith('http://')
HasScheme(segs) == Len(segs) >= 3 /\ segs[1] \in {"https:", "http:"} /\ segs[2] = ""

\* 'https://' + targetUrl
WithScheme(segs) ==
    IF HasScheme(segs) THEN segs
    ELSE <<"https:", "">> \o (IF segs = <<>> THEN <<"">> ELSE segs)

\* whether  .+\/.+  matches the string JoinWith(segs, "/")
MatchesOwnerRepo(segs) ==
    \E k \in 1..(Len(segs) - 1) :
        /\ JoinWith(SubSeq(segs, 1, k), "/") # ""
        /\ JoinWith(SubSeq(segs, k + 1, Len(segs)), "/") # ""

\* isGitHubUrl, on a target that carries its scheme (t[3] is the host)
isGitHubUrl(t, search) ==
    /\ LowerCase(t[3]) \in {"github.com", "www.github.com",
                            "raw.githubusercontent.com", "www.raw.githubusercontent.com"}
    /\ \E j \in 6..Len(t) :
        /\ LowerCase(t[j]) \in {"blob", "raw"}
        /\ MatchesOwnerRepo(SubSeq(t, 4, j - 1))
        /\ \/ j + 1 < Len(t)
           \/ j + 1 = Len(t) /\ t[j + 1] \o SearchString(search) # ""

\* targetUrl.replace(/\/(blob|raw)\//, '@'): the first segment that is blob or
\* raw and stands between two slashes goes, with its slashes, for an "@"
ReplaceBlob(t) ==
    LET hits == {i \in 2..(Len(t) - 1) : t[i] \in {"blob", "raw"}}
    IN  IF hits = {} THEN t
        ELSE LET i == CHOOSE i \in hits : \A j \in hits : i <= j
             IN  SubSeq(t, 1, i - 2) \o <<t[i - 1] \o "@" \o t[i + 1]>> \o SubSeq(t, i + 2, Len(t))

\* new URL(targetUrl) of the generic stage, from the segments of the target:
\* t[1] the scheme, t[3] the host, the rest the path
ParseTarget(t, search) ==
    [origin |-> t[1] \o "//" \o t[3],
     pathname |-> "/" \o JoinWith(SubSeq(t, 4, Len(t)), "/"),
     search |-> search]

\* useJsDelivrForGitHubFiles followed by new URL: the second replace puts
\* GITHUB_BASE_URL in the place of a leading scheme and github.com or
\* raw.githubusercontent.com (case-sensitively, and without "www.").  When
\* the first replace removed the slash after the host, the "@" follows the
\* host at once; left in place such a host is read as user information.
useJsDelivrForGitHubFiles(t, search) ==
    LET u == ReplaceBlob(t)
        merged == Len(t) >= 5 /\ t[4] \in {"blob", "raw"}
        remainder == IF merged THEN "@" \o JoinWith(SubSeq(t, 5, Len(t)), "/")
                     ELSE "/" \o JoinWith(SubSeq(u, 4, Len(u)), "/")
    IN  IF t[3] \in {"github.com", "raw.githubusercontent.com"}
        THEN [origin |-> "https://cdn.jsdelivr.net",
              pathname |-> "/gh" \o remainder,
              search |-> search]
        ELSE IF merged
        THEN [origin |-> t[1] \o "//" \o t[5],
              pathname |-> "/" \o JoinWith(SubSeq(t, 6, Len(t)), "/"),
              search |-> search]
        ELSE ParseTarget(u, search)

\* whether new Request(targetUrl) accepts the target: it needs a host
TargetIsValid(t) == t[3] # ""

-----------------------------------------------------------------------------
(* Headers and responses *)

\* generateErrorPage
generateErrorPage(message, status) ==
    [status |-> status,
     headers |-> ("content-type" :> <<"text/html", "; charset=utf-8">>),
     body |-> <<[attr |-> "", lead |-> "",
                 rest |-> "<html><body><h1>Error</h1><p>" \o message \o "</p></body></html>"]>>,
     encodeBody |-> "automatic"]

\* setCORSHeaders
setCORSHeaders(headers) ==
    Set(Set(Set(Set(headers,
        "Access-Control-Allow-Origin", <<"*">>),
        "Access-Control-Allow-Methods", <<"GET, POST, PUT, DELETE, OPTIONS">>),
        "Access-Control-Allow-Headers", <<"Origin, X-Requested-With, Content-Type, Accept">>),
        "Access-Control-Max-Age", <<"1728000">>)

\* modifyHeaders: new Headers(headers) copies every header of the source;
\* the loop then sets again, to the value it has, each header whose
\* (lower-cased) name is identical to an entry of keys
modifyHeaders(headers, keys) ==
    LET newHeaders == headers
    IN  [key \in DOMAIN newHeaders |->
            IF \E k \in keys : k = key THEN Get(headers, key) ELSE newHeaders[key]]

\* the match of  (href|src|action)="([^"]*)"  in a node: the regex has no word
\* boundary before the name, so it matches in every attribute whose name
\* ends with one of the three names
Rewritable(node) == node.attr \in {"href", "src", "action", "data-href", "data-src", "formaction"}

\* originalUrl.origin without the "http" it begins with
OriginAfterHttp(url) ==
    (CASE url.protocol = "https:" -> "s:" [] url.protocol = "http:" -> ":" [] OTHER -> url.protocol)
        \o "//" \o JoinWith(url.hostname, ".")

\* rewriteHTML: new URL(value, targetUrl).toString() for the values of the
\* model, which are paths ("/" and a relative rest) and absolute URLs; the
\* value written is proxiedUrl, which begins with "http" as the origin does
rewriteHTML(html, originalUrl, targetUrl) ==
    [i \in 1..Len(html) |->
        LET node == html[i]
            absoluteUrl == IF node.lead = "/" THEN targetUrl.origin \o "/" \o node.rest
                           ELSE node.lead \o node.rest
        IN  IF Rewritable(node) /\ node.lead \in {"/", "http"}
            THEN [attr |-> node.attr, lead |-> "http",
                  rest |-> OriginAfterHttp(originalUrl) \o "/" \o absoluteUrl]
            ELSE node]

\* createResponse
createResponse(status, headers, body, encodeBody) ==
    [status |-> status, headers |-> headers, body |-> body, encodeBody |-> encodeBody]

\* a header value contains the given token (String.includes on the tokens)
Includes(tokens, token) == \E i \in 1..Len(tokens) : tokens[i] = token

\* modifyResponse (deleteHeaders is a set of header names)
modifyResponse(resp, originalUrl, targetUrl, deleteHeaders, skipCompression) ==
    LET withCors == setCORSHeaders(resp.headers)
        modifiedHeaders == [n \in DOMAIN withCors \ {LowerCase(d) : d \in deleteHeaders} |-> withCors[n]]
        isRedirect == resp.status \in {301, 302, 303, 307, 308}
        contentType == IF "content-type" \in DOMAIN resp.headers
                       THEN resp.headers["content-type"] ELSE <<>>
        contentEncoding == IF "content-encoding" \in DOMAIN resp.headers
                           THEN resp.headers["content-encoding"] ELSE <<>>
        \* originalUrl.origin + "/" + response.headers.get('Location'): the
        \* string "null" stands for an absent header, and the sum is never empty
        location == IF "location" \in DOMAIN resp.headers
                    THEN resp.headers["location"] ELSE <<"null">>
        locationHeader == <<Origin(originalUrl), "/">> \o location
    IN  IF isRedirect
        THEN createResponse(resp.status,
                 IF Str(locationHeader) # ""
                 THEN Set(modifiedHeaders, "Location", locationHeader)
                 ELSE modifiedHeaders,
                 <<>>, "automatic")
        ELSE IF Includes(contentType, "text/html")
        THEN createResponse(resp.status, modifiedHeaders,
                 rewriteHTML(resp.body, originalUrl, targetUrl), "automatic")
        ELSE IF Str(contentEncoding) # "" /\ skipCompression
        THEN createResponse(resp.status,
                 Set(modifiedHeaders, "Content-Encoding", contentEncoding),
                 resp.body, "manual")
        ELSE createResponse(resp.status, modifiedHeaders, resp.body, "automatic")

\* a reply that is a network error (fetch rejects)
NetworkError == [error |-> "TypeError"]
IsError(reply) == "error" \in DOMAIN reply

\* fetchAndModifyResponse, first half: the Request it builds and fetches
allowedHeaders(extraHeaders) ==
    {"Accept", "Content-Type", "Content-Length", "accept-encoding", "User-Agent"} \cup extraHeaders

modifiedRequest(kind, stage, targetUrl, originalRequest, extraHeaders) ==
    [kind |-> kind, stage |-> stage,
     url |-> targetUrl,
     headers |-> modifyHeaders(originalRequest.headers, allowedHeaders(extraHeaders)),
     method |-> originalRequest.method,
     redirect |-> "manual"]

\* fetchAndModifyResponse, second half: the try block after the fetch settled
fetchAndModifyResponse(reply, originalUrl, targetUrl, deleteHeaders, skipCompression) ==
    IF IsError(reply)
    THEN generateErrorPage(errorPageMessage, errorPageStatus)
    ELSE modifyResponse(reply, originalUrl, targetUrl, deleteHeaders, skipCompression)

-----------------------------------------------------------------------------
(* The registry authentication relay *)

EqQuote == "=\""
Quote == "\""

\* authenticateStr.match(/(?<=\=")(?:\\.|[^"\\])*(?=")/g) on the tokens of a
\* header in which every  ="  opens a quoted value: the matches are the
\* quoted values, in order, the empty ones included
RECURSIVE QuotedValues(_)
QuotedValues(tokens) ==
    IF tokens = <<>> THEN <<>>
    ELSE IF tokens[1] = EqQuote /\ Len(tokens) >= 2 /\ tokens[2] = Quote
    THEN <<"">> \o QuotedValues(Tail(Tail(tokens)))
    ELSE IF tokens[1] = EqQuote /\ Len(tokens) >= 3 /\ tokens[3] = Quote
    THEN <<tokens[2]>> \o QuotedValues(Tail(Tail(Tail(tokens))))
    ELSE QuotedValues(Tail(tokens))

\* parseAuthenticate: the first two matches, or the Error it throws
Thrown(what) == [error |-> what]

parseAuthenticate(authenticateStr) ==
    LET matches == QuotedValues(authenticateStr)
    IN  IF Len(matches) < 2 THEN Thrown("invalid Www-Authenticate Header")
        ELSE [realm |-> matches[1], service |-> matches[2]]

\* fetchToken, up to its fetch: the GET request it issues, or the TypeError
\* of new URL(realm)
fetchToken(wwwAuthenticate, searchParams) ==
    IF ~IsUrl(wwwAuthenticate.realm) THEN Thrown("TypeError: Invalid URL")
    ELSE LET url == UrlTable[wwwAuthenticate.realm]
             withService == IF wwwAuthenticate.service # ""
                            THEN SearchSet(url.search, "service", wwwAuthenticate.service)
                            ELSE url.search
             withScope == IF SearchGet(searchParams, "scope") # "\\null"
                          THEN SearchSet(withService, "scope", SearchGet(searchParams, "scope"))
                          ELSE withService
         IN  [kind |-> "token", stage |-> "registry",
              url |-> [url EXCEPT !.search = withScope],
              headers |-> EmptyHeaders,
              method |-> "GET",
              redirect |-> "follow"]

\* the Response of a fetch that the code returns as it is
AsResponse(reply) ==
    [status |-> reply.status, headers |-> reply.headers, body |-> reply.body,
     encodeBody |-> "automatic"]

\* handleV2: the probe of <upstream>/v2/
handleV2(upstream, originalRequest, extraHeaders) ==
    modifiedRequest("probe", "registry",
        [origin |-> upstream.origin, pathname |-> upstream.path \o "/v2/", search |-> <<>>],
        originalRequest, extraHeaders)

\* handleV2Auth without the synthesis of the challenge: the upstream's 401 is
\* returned like any other response
handleV2AuthNoChallenge(resp, originalUrl) == resp

\* handleV2Auth that synthesizes the challenge only when the upstream's 401
\* carries no WWW-Authenticate header of its own
handleV2AuthKeepsUpstreamChallenge(resp, originalUrl) ==
    IF resp.status = 401 /\ "www-authenticate" \notin DOMAIN resp.headers
    THEN [status |-> 401,
          headers |-> Set("content-type" :> <<"text/plain;charset=UTF-8">>,
                          "Www-Authenticate",
                          <<"Bearer ", "realm", EqQuote, Origin(originalUrl) \o "/v2/auth", Quote,
                            ",", "service", EqQuote, "cloudflare-docker-proxy", Quote>>),
          body |-> <<[attr |-> "", lead |-> "", rest |-> "{\"message\":\"UNAUTHORIZED\"}"]>>,
          encodeBody |-> "automatic"]
    ELSE resp

\* handleV2Auth, after the probe: resp is what handleV2 returned.  A Response
\* built from a string gets the Content-Type of a string body.
handleV2Auth(resp, originalUrl) ==
    IF resp.status = 401
    THEN [status |-> 401,
          headers |-> Set("content-type" :> <<"text/plain;charset=UTF-8">>,
                          "Www-Authenticate",
                          <<"Bearer ", "realm", EqQuote, Origin(originalUrl) \o "/v2/auth", Quote,
                            ",", "service", EqQuote, "cloudflare-docker-proxy", Quote>>),
          body |-> <<[attr |-> "", lead |-> "", rest |-> "{\"message\":\"UNAUTHORIZED\"}"]>>,
          encodeBody |-> "automatic"]
    ELSE resp

\* handleAuth without the early return for an absent header: the header is
\* parsed whenever the status is 401
handleAuthParsesAbsentHeader(resp, originalUrl) ==
    LET authenticateStr == Get(resp.headers, "www-authenticate")
        wwwAuthenticate == parseAuthenticate(authenticateStr)
        token == fetchToken(wwwAuthenticate, originalUrl.search)
    IN  IF resp.status # 401 THEN [kind |-> "response", response |-> resp]
        ELSE IF IsError(wwwAuthenticate) THEN [kind |-> "throw"]
        ELSE IF IsError(token) THEN [kind |-> "throw"]
        ELSE [kind |-> "fetch", call |-> token]

\* handleAuth with a retry: a probe that ended in the error page is issued
\* once more
handleAuthRetriesProbe(resp, originalUrl) ==
    LET authenticateStr == Get(resp.headers, "www-authenticate")
        wwwAuthenticate == parseAuthenticate(authenticateStr)
        token == fetchToken(wwwAuthenticate, originalUrl.search)
    IN  IF resp.status = errorPageStatus THEN [kind |-> "fetch", call |-> calls[1]]
        ELSE IF resp.status # 401 THEN [kind |-> "response", response |-> resp]
        ELSE IF authenticateStr = Null \/ Str(authenticateStr) = ""
        THEN [kind |-> "response", response |-> resp]
        ELSE IF IsError(wwwAuthenticate) THEN [kind |-> "throw"]
        ELSE IF IsError(token) THEN [kind |-> "throw"]
        ELSE [kind |-> "fetch", call |-> token]

\* handleAuth, after the probe: the response it returns, the token request it
\* issues, or the error it throws
handleAuth(resp, originalUrl) ==
    LET authenticateStr == Get(resp.headers, "www-authenticate")
        wwwAuthenticate == parseAuthenticate(authenticateStr)
        token == fetchToken(wwwAuthenticate, originalUrl.search)
    IN  IF resp.status # 401 THEN [kind |-> "response", response |-> resp]
        ELSE IF authenticateStr = Null \/ Str(authenticateStr) = ""
        THEN [kind |-> "response", response |-> resp]
        ELSE IF IsError(wwwAuthenticate) THEN [kind |-> "throw"]
        ELSE IF IsError(token) THEN [kind |-> "throw"]
        ELSE [kind |-> "fetch", call |-> token]

-----------------------------------------------------------------------------
(* The stages of handleRequest, each up to its first suspension *)

\* originalUrl.pathname.includes('/v2/')
IncludesV2(pathname) == \E i \in 1..(Len(pathname) - 1) : pathname[i] = "v2"

handleContainerRegistryRequestStart(originalRequest) ==
    LET originalUrl == originalRequest.url
        upstream == getRoutes(ROUTES, originalUrl.hostname)
        extraHeaders == {"WWW-Authenticate"}
    IN  IF Falsy(upstream) THEN [kind |-> "null"]
        ELSE IF originalUrl.pathname = <<"v2", "">>
        THEN [kind |-> "fetch", next |-> "handleV2Auth", skipCompression |-> FALSE,
              call |-> handleV2(upstream, originalRequest, extraHeaders)]
        ELSE IF originalUrl.pathname = <<"v2", "auth">>
        THEN [kind |-> "fetch", next |-> "handleAuth", skipCompression |-> FALSE,
              call |-> handleV2(upstream, originalRequest, extraHeaders)]
        ELSE IF IncludesV2(originalUrl.pathname)
        THEN [kind |-> "fetch", next |-> "fetchAndModifyResponse", skipCompression |-> TRUE,
              call |-> modifiedRequest("forward", "registry",
                          [origin |-> upstream.origin,
                           pathname |-> upstream.path \o Pathname(originalUrl),
                           search |-> <<>>],
                          originalRequest, extraHeaders)]
        ELSE [kind |-> "null"]

\* handleAPIRequest without the OPTIONS short-circuit: the preflight is
\* forwarded like any other request
handleAPIRequestForwardsOptions(originalRequest) ==
    LET originalUrl == originalRequest.url
        upstream == getRoutes(API_ROUTES, originalUrl.hostname)
        extraHeaders == {"x-goog-api-client", "x-goog-api-key", "Authorization"}
    IN  IF Falsy(upstream) THEN [kind |-> "null"]
        ELSE [kind |-> "fetch", next |-> "fetchAndModifyResponse", skipCompression |-> TRUE,
              call |-> modifiedRequest("forward", "api",
                          [origin |-> upstream.origin,
                           pathname |-> Pathname(originalUrl),
                           search |-> originalUrl.search],
                          originalRequest, extraHeaders)]

handleAPIRequestStart(originalRequest) ==
    LET originalUrl == originalRequest.url
        upstream == getRoutes(API_ROUTES, originalUrl.hostname)
        extraHeaders == {"x-goog-api-client", "x-goog-api-key", "Authorization"}
    IN  IF Falsy(upstream) THEN [kind |-> "null"]
        ELSE IF originalRequest.method = "OPTIONS"
        THEN [kind |-> "response",
              response |-> [status |-> 200, headers |-> setCORSHeaders(EmptyHeaders),
                            body |-> <<>>, encodeBody |-> "automatic"]]
        ELSE [kind |-> "fetch", next |-> "fetchAndModifyResponse", skipCompression |-> TRUE,
              call |-> modifiedRequest("forward", "api",
                          [origin |-> upstream.origin,
                           pathname |-> Pathname(originalUrl),
                           search |-> originalUrl.search],
                          originalRequest, extraHeaders)]

\* the rest of handleRequest: the generic proxy.  new Request(targetUrl)
\* throws, outside any try block, when the target is no URL.
genericStart(originalRequest) ==
    LET originalUrl == originalRequest.url
        t == WithScheme(originalUrl.pathname)
        targetUrl == IF isGitHubUrl(t, originalUrl.search)
                     THEN useJsDelivrForGitHubFiles(t, originalUrl.search)
                     ELSE ParseTarget(t, originalUrl.search)
    IN  IF ~TargetIsValid(t) THEN [kind |-> "throw"]
        ELSE [kind |-> "fetch", next |-> "fetchAndModifyResponse", skipCompression |-> FALSE,
              call |-> modifiedRequest("forward", "generic", targetUrl, originalRequest, {})]

\* generateHomePage: the fetch of the asset, and the page made of its reply
generateHomePageStart ==
    [kind |-> "home", stage |-> "home",
     url |-> UrlTable[ASSET_URL \o "index.html"],
     headers |-> EmptyHeaders, method |-> "GET", redirect |-> "follow"]

generateHomePage(reply) ==
    IF IsError(reply) \/ ~(reply.status \in 200..299)
    THEN generateErrorPage(errorPageMessage, errorPageStatus)
    ELSE [status |-> 200,
          headers |-> ("content-type" :> <<"text/html", "; charset=utf-8">>),
          body |-> reply.body, encodeBody |-> "automatic"]

-----------------------------------------------------------------------------
(* The inputs: inbound requests and upstream replies *)

Hostnames ==
    { <<"quay", "proxy", "example">>,      \* a registry host, by its first label
      <<"gemini", "proxy", "example">>,    \* an API host, by its full name
      <<"both", "proxy", "example">>,      \* in both route tables
      <<"proxy", "example">> }             \* in neither

Pathnames ==
    { <<>>,                                            \* /
      <<"v2", "">>,                                    \* /v2/
      <<"v2", "auth">>,                                \* /v2/auth
      <<"v2", "lib">>,                                 \* /v2/lib
      <<"a", "v2", "b">>,                              \* /a/v2/b
      <<"https:", "", "up.example", "x">>,             \* /https://up.example/x
      <<"http:", "", "">>,                             \* /http://
      <<"github.com", "o", "r", "blob", "main", "f">>,      \* /github.com/o/r/blob/main/f
      <<"www.github.com", "o", "r", "blob", "main", "f">> } \* /www.github.com/o/r/blob/main/f

Queries ==
    { <<>>,
      << <<"scope", "repo:pull">> >>,
      << <<"scope", "">> >>,
      << <<"x", "1">> >>,
      << <<"x", "1">>, <<"scope", "repo:pull">> >>,
      << <<"scope", "repo:pull">>, <<"scope", "repo:push">> >> }

Methods == {"GET", "OPTIONS"}

RequestHeaders ==
    { ("accept" :> <<"*/*">>) @@ ("cookie" :> <<"sid=1">>),
      ("authorization" :> <<"Bearer k">>) @@ ("accept-encoding" :> <<"gzip">>)
          @@ ("x-forwarded-for" :> <<"10.0.0.1">>) }

Requests ==
    { [method |-> m,
       url |-> [protocol |-> "https:", hostname |-> h, pathname |-> p, search |-> q],
       headers |-> hs] :
      m \in Methods, h \in Hostnames, p \in Pathnames,
      q \in Queries, hs \in RequestHeaders }

\* WWW-Authenticate values an upstream sends
WwwValid ==
    <<"Bearer ", "realm", EqQuote, "https://auth.example/token", Quote,
      ",", "service", EqQuote, "registry.example", Quote>>
WwwRealmOnly ==
    <<"Bearer ", "realm", EqQuote, "https://auth.example/token", Quote>>
WwwEmptyService ==
    <<"Bearer ", "realm", EqQuote, "https://auth.example/token", Quote,
      ",", "service", EqQuote, Quote>>
WwwServiceFirst ==
    <<"Bearer ", "service", EqQuote, "registry.example", Quote,
      ",", "realm", EqQuote, "https://auth.example/token", Quote>>
WwwEmpty == <<>>

HeaderChoices(name) ==
    CASE name = "www-authenticate" ->
            {WwwValid, WwwRealmOnly, WwwEmptyService, WwwServiceFirst, WwwEmpty}
      [] name = "content-type" -> { <<"text/html", "; charset=utf-8">>, <<"application/json">> }
      [] name = "location" -> { <<"/new">>, <<"https://", "up.example/new">> }
      [] name = "content-encoding" -> { <<"gzip">> }
      [] name = "access-control-allow-origin" -> { <<"https://up.example">> }

OptionalHeaderNames ==
    {"www-authenticate", "content-type", "location", "content-encoding",
     "access-control-allow-origin"}

ReplyHeaders ==
    UNION { { h \in [S -> UNION {HeaderChoices(n) : n \in S}] : \A n \in S : h[n] \in HeaderChoices(n) } :
            S \in { S \in SUBSET OptionalHeaderNames : Cardinality(S) <= MaxRespHeaders } }

Bodies ==
    { << [attr |-> "", lead |-> "", rest |-> "<a "],
         [attr |-> "href", lead |-> "/", rest |-> "foo"],
         [attr |-> "src", lead |-> "", rest |-> "relpath"],
         [attr |-> "data-href", lead |-> "/", rest |-> "bar"] >> }

Statuses == {200, 302, 401}

Replies ==
    { [status |-> st, headers |-> h, body |-> b] :
      st \in Statuses, h \in ReplyHeaders, b \in Bodies } \cup {NetworkError}

-----------------------------------------------------------------------------
(* The state machine *)

NoRequest ==
    [method |-> "",
     url |-> [protocol |-> "", hostname |-> <<>>, pathname |-> <<>>, search |-> <<>>],
     headers |-> EmptyHeaders]
NoResponse == [status |-> 0, headers |-> EmptyHeaders, body |-> <<>>, encodeBody |-> ""]
NoLocals == [targetUrl |-> [origin |-> "", pathname |-> "", search |-> <<>>],
             skipCompression |-> FALSE]

Init ==
    /\ pc = "idle"
    /\ request = NoRequest
    /\ entered = <<>>
    /\ returned = <<>>
    /\ calls = <<>>
    /\ replies = <<>>
    /\ locals = NoLocals
    /\ response = NoResponse
    /\ producer = "none"
    /\ suspended = <<>>

\* what a stage does with the outcome of its synchronous part
Continue(stage, outcome, nextStage) ==
    /\ entered' = Append(entered, stage)
    /\ replies' = replies
    /\ request' = request
    /\ suspended' = suspended
    /\ CASE outcome.kind = "null" ->
              /\ returned' = Append(returned, stage)
              /\ pc' = nextStage
              /\ UNCHANGED <<calls, locals, response, producer>>
         [] outcome.kind = "response" ->
              /\ response' = outcome.response
              /\ producer' = stage
              /\ pc' = "responded"
              /\ UNCHANGED <<returned, calls, locals>>
         [] outcome.kind = "fetch" ->
              /\ calls' = Append(calls, outcome.call)
              /\ locals' = [targetUrl |-> outcome.call.url,
                            skipCompression |-> outcome.skipCompression]
              /\ pc' = outcome.next
              /\ UNCHANGED <<returned, response, producer>>
         [] outcome.kind = "throw" ->
              /\ pc' = "rejected"
              /\ UNCHANGED <<returned, calls, locals, response, producer>>

\* the fetch event listener and the head of handleRequest
FetchEvent(r) ==
    /\ pc = "idle"
    /\ request' = r
    /\ IF TargetIsEmpty(r.url)
       THEN /\ calls' = Append(calls, generateHomePageStart)
            /\ pc' = "generateHomePage"
       ELSE /\ calls' = calls
            /\ pc' = "handleContainerRegistryRequest"
    /\ UNCHANGED <<entered, returned, replies, locals, response, producer, suspended>>

HomePageFetched(reply) ==
    /\ pc = "generateHomePage"
    /\ replies' = Append(replies, reply)
    /\ response' = generateHomePage(reply)
    /\ producer' = "home"
    /\ pc' = "responded"
    /\ UNCHANGED <<request, entered, returned, calls, locals, suspended>>

handleContainerRegistryRequest ==
    /\ pc = "handleContainerRegistryRequest"
    /\ Continue("registry", handleContainerRegistryRequestStart(request), "handleAPIRequest")

handleAPIRequest ==
    /\ pc = "handleAPIRequest"
    /\ Continue("api", handleAPIRequestStart(request), "generic")

GenericProxy ==
    /\ pc = "generic"
    /\ Continue("generic", genericStart(request), "none")

\* the probe of /v2/ settled
V2AuthProbed(reply) ==
    /\ pc = "handleV2Auth"
    /\ replies' = Append(replies, reply)
    /\ response' = handleV2Auth(
           fetchAndModifyResponse(reply, request.url, locals.targetUrl, {}, locals.skipCompression),
           request.url)
    /\ producer' = "registry"
    /\ pc' = "responded"
    /\ UNCHANGED <<request, entered, returned, calls, locals, suspended>>

\* the probe of /v2/auth settled
AuthProbed(reply) ==
    /\ pc = "handleAuth"
    /\ replies' = Append(replies, reply)
    /\ LET outcome == handleAuth(
               fetchAndModifyResponse(reply, request.url, locals.targetUrl, {}, locals.skipCompression),
               request.url)
       IN  CASE outcome.kind = "response" ->
                  /\ response' = outcome.response
                  /\ producer' = "registry"
                  /\ pc' = "responded"
                  /\ UNCHANGED calls
             [] outcome.kind = "fetch" ->
                  /\ calls' = Append(calls, outcome.call)
                  /\ pc' = "fetchToken"
                  /\ UNCHANGED <<response, producer>>
             [] outcome.kind = "throw" ->
                  /\ pc' = "rejected"
                  /\ UNCHANGED <<calls, response, producer>>
    /\ UNCHANGED <<request, entered, returned, locals, suspended>>

\* the token request settled: its response is returned, its error thrown on
TokenFetched(reply) ==
    /\ pc = "fetchToken"
    /\ replies' = Append(replies, reply)
    /\ IF IsError(reply)
       THEN /\ pc' = "rejected"
            /\ UNCHANGED <<response, producer>>
       ELSE /\ response' = AsResponse(reply)
            /\ producer' = "registry"
            /\ pc' = "responded"
    /\ UNCHANGED <<request, entered, returned, calls, locals, suspended>>

\* the fetch of a forwarded request (registry, API or generic) settled
Forwarded(reply) ==
    /\ pc = "fetchAndModifyResponse"
    /\ replies' = Append(replies, reply)
    /\ response' = fetchAndModifyResponse(reply, request.url, locals.targetUrl, {},
                                          locals.skipCompression)
    /\ producer' = entered[Len(entered)]
    /\ pc' = "responded"
    /\ UNCHANGED <<request, entered, returned, calls, locals, suspended>>

Next ==
    \/ \E r \in Requests : FetchEvent(r)
    \/ \E reply \in Replies : HomePageFetched(reply)
    \/ handleContainerRegistryRequest
    \/ handleAPIRequest
    \/ GenericProxy
    \/ \E reply \in Replies : V2AuthProbed(reply)
    \/ \E reply \in Replies : AuthProbed(reply)
    \/ \E reply \in Replies : TokenFetched(reply)
    \/ \E reply \in Replies : Forwarded(reply)

Spec == Init /\ [][Next]_vars

-----------------------------------------------------------------------------
(* Several fetch events under way at once *)

\* The runtime runs one invocation of handleRequest at a time and leaves it
\* only at an await; a fetch event that arrives meanwhile starts a new
\* invocation with locals of its own.  The variables above are the
\* invocation that is running; `suspended` holds the others.
Context ==
    [pc |-> pc, request |-> request, entered |-> entered, returned |-> returned,
     calls |-> calls, replies |-> replies, locals |-> locals,
     response |-> response, producer |-> producer]

\* a fetch event arrives while the running invocation waits at an await: the
\* listener is invoked anew
Suspend ==
    /\ pc \notin {"idle", "responded", "rejected"}
    /\ Len(suspended) < MaxConcurrent - 1
    /\ suspended' = Append(suspended, Context)
    /\ pc' = "idle"
    /\ request' = NoRequest
    /\ entered' = <<>>
    /\ returned' = <<>>
    /\ calls' = <<>>
    /\ replies' = <<>>
    /\ locals' = NoLocals
    /\ response' = NoResponse
    /\ producer' = "none"

\* the locals of an invocation, which are module-level variables here: the
\* invocation that resumes finds the ones the other invocation left
ResumeSharingLocals(i) ==
    LET waiting == suspended[i]
        others == [j \in 1..(Len(suspended) - 1) |->
                      IF j < i THEN suspended[j] ELSE suspended[j + 1]]
    IN  /\ pc # "idle"
        /\ i \in 1..Len(suspended)
        /\ pc' = waiting.pc
        /\ request' = waiting.request
        /\ entered' = waiting.entered
        /\ returned' = waiting.returned
        /\ calls' = waiting.calls
        /\ replies' = waiting.replies
        /\ locals' = locals
        /\ response' = waiting.response
        /\ producer' = waiting.producer
        /\ suspended' = IF pc \in {"responded", "rejected"} THEN others
                        ELSE Append(others, Context)

\* the running invocation reached an await (or its end) and the runtime goes
\* on with the i-th waiting invocation, whose awaited promise has settled
Resume(i) ==
    LET waiting == suspended[i]
        others == [j \in 1..(Len(suspended) - 1) |->
                      IF j < i THEN suspended[j] ELSE suspended[j + 1]]
    IN  /\ pc # "idle"
        /\ i \in 1..Len(suspended)
        /\ pc' = waiting.pc
        /\ request' = waiting.request
        /\ entered' = waiting.entered
        /\ returned' = waiting.returned
        /\ calls' = waiting.calls
        /\ replies' = waiting.replies
        /\ locals' = waiting.locals
        /\ response' = waiting.response
        /\ producer' = waiting.producer
        /\ suspended' = IF pc \in {"responded", "rejected"} THEN others
                        ELSE Append(others, Context)

\* the requests and replies of the concurrent runs: one request for each way
\* through handleRequest
ConcurrentRequests ==
    { [method |-> "GET",
       url |-> [protocol |-> "https:", hostname |-> hp[1], pathname |-> hp[2], search |-> hp[3]],
       headers |-> ("accept" :> <<"*/*">>) @@ ("cookie" :> <<"sid=1">>)] :
      hp \in { << <<"quay", "proxy", "example">>, <<"v2", "auth">>, << <<"scope", "repo:pull">> >> >>,
               << <<"quay", "proxy", "example">>, <<"v2", "">>, <<>> >>,
               << <<"proxy", "example">>, <<"https:", "", "up.example", "x">>, <<>> >>,
               << <<"proxy", "example">>, <<>>, <<>> >> } }

ConcurrentReplies ==
    { [status |-> 200, headers |-> ("content-type" :> <<"text/html", "; charset=utf-8">>), body |-> b] :
      b \in Bodies } \cup
    { [status |-> 401, headers |-> ("www-authenticate" :> WwwValid), body |-> b] : b \in Bodies } \cup
    { NetworkError }

NextConcurrent ==
    \/ \E r \in ConcurrentRequests : FetchEvent(r)
    \/ \E reply \in ConcurrentReplies : HomePageFetched(reply)
    \/ handleContainerRegistryRequest
    \/ handleAPIRequest
    \/ GenericProxy
    \/ \E reply \in ConcurrentReplies : V2AuthProbed(reply)
    \/ \E reply \in ConcurrentReplies : AuthProbed(reply)
    \/ \E reply \in ConcurrentReplies : TokenFetched(reply)
    \/ \E reply \in ConcurrentReplies : Forwarded(reply)
    \/ Suspend
    \/ \E i \in 1..(MaxConcurrent - 1) : Resume(i)

SpecConcurrent == Init /\ [][NextConcurrent]_vars

-----------------------------------------------------------------------------
(* Vocabulary of the properties *)

Handling == pc # "idle"
Finished == pc \in {"responded", "rejected"}
originalUrl == request.url

OnRegistryHost == Handling /\ ~Falsy(getRoutes(ROUTES, originalUrl.hostname))
OnApiHost == Handling /\ ~Falsy(getRoutes(API_ROUTES, originalUrl.hostname))

IsPrefix(s, t) == Len(s) <= Len(t) /\ \A i \in 1..Len(s) : s[i] = t[i]
Members(s) == {s[i] : i \in 1..Len(s)}

TokenCalls == {i \in 1..Len(calls) : calls[i].kind = "token"}

\* the probe of the registry upstream has been answered with a response
Probed == Len(replies) >= 1 /\ ~IsError(replies[1])
probe == replies[1]

TheErrorPage ==
    [status |-> 500,
     headers |-> ("content-type" :> <<"text/html", "; charset=utf-8">>),
     body |-> <<[attr |-> "", lead |-> "",
                 rest |-> "<html><body><h1>Error</h1><p>" \o errorPageMessage \o "</p></body></html>"]>>,
     encodeBody |-> "automatic"]

CorsHeaders ==
    ("access-control-allow-origin" :> <<"*">>) @@
    ("access-control-allow-methods" :> <<"GET, POST, PUT, DELETE, OPTIONS">>) @@
    ("access-control-allow-headers" :> <<"Origin, X-Requested-With, Content-Type, Accept">>) @@
    ("access-control-max-age" :> <<"1728000">>)

HasCors(headers) ==
    \A n \in DOMAIN CorsHeaders : n \in DOMAIN headers /\ headers[n] = CorsHeaders[n]

\* two header sets with the same names and the same value strings
SameHeaders(h1, h2) ==
    /\ DOMAIN h1 = DOMAIN h2
    /\ \A n \in DOMAIN h1 : Str(h1[n]) = Str(h2[n])

-----------------------------------------------------------------------------
(* C1 *)

\* The part of C1 about the order of the stages: the stages are entered in
\* the order registry, API, generic, each after the ones before it returned
\* null, and a stage without a route for the hostname makes no outbound call.
StageOrder ==
    /\ IsPrefix(entered, <<"registry", "api", "generic">>)
    /\ IsPrefix(returned, entered)
    /\ Len(entered) <= Len(returned) + 1
    /\ Handling /\ Falsy(getRoutes(ROUTES, originalUrl.hostname)) =>
          /\ \A i \in 1..Len(calls) : calls[i].stage # "registry"
          /\ "registry" \in Members(entered) => "registry" \in Members(returned)
    /\ Handling /\ Falsy(getRoutes(API_ROUTES, originalUrl.hostname)) =>
          /\ \A i \in 1..Len(calls) : calls[i].stage # "api"
          /\ "api" \in Members(entered) => "api" \in Members(returned)

\* C1: for every request with a non-empty target the stages are tried in the
\* strict order registry, API, generic (each entered only after the earlier
\* ones returned not-applicable, a stage with no route entry making no
\* outbound call), and exactly one stage produces the response sent to the
\* client.
C1_StagesInOrderOneProduces ==
    Handling /\ ~TargetIsEmpty(originalUrl) =>
        /\ StageOrder
        /\ Finished =>
              /\ producer \in {"registry", "api", "generic"}
              /\ entered # <<>> /\ producer = entered[Len(entered)]
              /\ producer \notin Members(returned)

-----------------------------------------------------------------------------
(* C2 *)

\* C2: on a registry host with path /v2/auth a token request is issued if and
\* only if the probe returned 401 with a WWW-Authenticate header that parses
\* into a challenge; it is issued after the probe, as one GET to the
\* challenge's realm with service from the challenge and scope from the
\* inbound query (no scope when the query has none), and the token
\* endpoint's response is what the client receives.
C2_TokenExchangeIffChallenge ==
    OnRegistryHost /\ originalUrl.pathname = <<"v2", "auth">> /\ Len(replies) >= 1 =>
        LET header == Get(replies[1].headers, "www-authenticate")
            challenged == /\ ~IsError(replies[1])
                          /\ replies[1].status = 401
                          /\ header # Null
                          /\ ~IsError(parseAuthenticate(header))
            challenge == parseAuthenticate(header)
            scope == SearchGet(originalUrl.search, "scope")
        IN  /\ TokenCalls # {} <=> challenged
            /\ TokenCalls \subseteq {2}
            /\ \A i \in TokenCalls :
                  /\ calls[i].method = "GET"
                  /\ calls[i].url.origin \o calls[i].url.pathname = challenge.realm
                  /\ calls[i].url.search =
                        <<<<"service", challenge.service>>>> \o
                        (IF scope = "\\null" THEN <<>> ELSE <<<<"scope", scope>>>>)
            /\ TokenCalls # {} /\ Len(replies) = 2 /\ ~IsError(replies[2]) =>
                  /\ pc = "responded"
                  /\ response.status = replies[2].status
                  /\ response.headers = replies[2].headers
                  /\ response.body = replies[2].body

-----------------------------------------------------------------------------
(* C3 *)

\* C3: on a registry host with path /v2/, when the probe returns 401 without
\* a WWW-Authenticate header, the client receives status 401, the body
\* {"message":"UNAUTHORIZED"} and the header WWW-Authenticate: Bearer
\* realm="<origin>/v2/auth",service="cloudflare-docker-proxy", and the probe
\* stays the only outbound call.
C3_Case ==
    /\ OnRegistryHost /\ originalUrl.pathname = <<"v2", "">>
    /\ Probed /\ probe.status = 401
    /\ "www-authenticate" \notin DOMAIN probe.headers

C3_SynthesizedChallenge ==
    C3_Case =>
        /\ pc = "responded"
        /\ response.status = 401
        /\ Len(response.body) = 1
        /\ response.body[1].attr = ""
        /\ response.body[1].lead \o response.body[1].rest = "{\"message\":\"UNAUTHORIZED\"}"
        /\ Str(Get(response.headers, "www-authenticate")) =
              "Bearer realm=\"" \o Origin(originalUrl) \o "/v2/auth\",service=\"cloudflare-docker-proxy\""
        /\ Len(calls) = 1 /\ Len(replies) = 1

C3_Witness ==
    /\ C3_Case
    /\ pc = "responded"
    /\ originalUrl.hostname = <<"quay", "proxy", "example">>
    /\ "content-type" \in DOMAIN probe.headers

-----------------------------------------------------------------------------
(* C4 *)

\* the cases of C4: the probe's status is not 401 (paths /v2/ and /v2/auth),
\* or it is 401 without a WWW-Authenticate header on path /v2/auth
C4_Case ==
    /\ OnRegistryHost /\ Probed
    /\ \/ originalUrl.pathname \in {<<"v2", "">>, <<"v2", "auth">>} /\ probe.status # 401
       \/ /\ originalUrl.pathname = <<"v2", "auth">>
          /\ probe.status = 401
          /\ "www-authenticate" \notin DOMAIN probe.headers

\* C4 as the claim states it: in these cases the client receives the probe's
\* response unmodified (the status, headers and body the upstream sent) and
\* the probe is the only outbound call.
C4_ProbeUnmodified ==
    C4_Case =>
        /\ pc = "responded"
        /\ response.status = probe.status
        /\ response.headers = probe.headers
        /\ response.body = probe.body
        /\ Len(calls) = 1

\* C4, amended: in these cases the client receives the probe's response as
\* the upstream fetcher rewrites every upstream response, and nothing more:
\* the upstream's status; the upstream's headers with the four CORS headers
\* set over them and, on a redirect status, Location replaced by the
\* inbound origin, a slash and the upstream's Location (or "null"); the body
\* dropped on a redirect, its links rewritten when the Content-Type contains
\* text/html, and unchanged otherwise; the probe is the only outbound call.
C4_ProbeRelayedThroughFetcher ==
    C4_Case =>
        LET redirect == probe.status \in {301, 302, 303, 307, 308}
            html == /\ "content-type" \in DOMAIN probe.headers
                    /\ Includes(probe.headers["content-type"], "text/html")
            upstreamLocation == IF "location" \in DOMAIN probe.headers
                                THEN Str(probe.headers["location"]) ELSE "null"
            expected == IF redirect
                        THEN ("location" :> <<Origin(originalUrl) \o "/" \o upstreamLocation>>)
                             @@ CorsHeaders @@ probe.headers
                        ELSE CorsHeaders @@ probe.headers
        IN  /\ pc = "responded"
            /\ response.status = probe.status
            /\ SameHeaders(response.headers, expected)
            /\ response.body = IF redirect THEN <<>>
                               ELSE IF html
                               THEN rewriteHTML(probe.body, originalUrl, calls[1].url)
                               ELSE probe.body
            /\ Len(calls) = 1 /\ Len(replies) = 1

C4_Witness ==
    /\ C4_Case
    /\ originalUrl.pathname = <<"v2", "auth">>
    /\ probe.status = 401
    /\ pc = "responded"

-----------------------------------------------------------------------------
(* C5 *)

\* C5: on path /v2/auth, when the probe returns 401 with a WWW-Authenticate
\* header (one that is not the empty string, which the code takes for an
\* absent header) that yields fewer than two quoted attributes, the client receives
\* the fixed error page with status 500, and handleRequest does not end in
\* an uncaught failure.
C5_MalformedChallengeIsErrorPage ==
    /\ OnRegistryHost /\ originalUrl.pathname = <<"v2", "auth">>
    /\ Probed /\ probe.status = 401
    /\ "www-authenticate" \in DOMAIN probe.headers
    /\ Str(probe.headers["www-authenticate"]) # ""
    /\ Len(QuotedValues(probe.headers["www-authenticate"])) < 2
    => /\ pc = "responded"
       /\ response = TheErrorPage

-----------------------------------------------------------------------------
(* C6 *)

\* C6: a transport failure of any outbound call is recovered: the client
\* receives the fixed error page with status 500, the same for every
\* failure, and the error does not propagate out of handleRequest.
C6_TransportFailureIsErrorPage ==
    (\E i \in 1..Len(replies) : IsError(replies[i])) =>
        /\ pc = "responded"
        /\ response = TheErrorPage

-----------------------------------------------------------------------------
(* C7 *)

\* at most two outbound calls, one after the other, the second one only the
\* token request after the probe, and none after a call that failed
C7_Sequential ==
    /\ Len(calls) <= 2
    /\ Len(replies) <= Len(calls) /\ Len(calls) <= Len(replies) + 1
    /\ Len(calls) = 2 =>
          /\ calls[1].kind = "probe" /\ calls[2].kind = "token"
          /\ originalUrl.pathname = <<"v2", "auth">>
          /\ Probed
    /\ \A i \in 1..Len(replies) : IsError(replies[i]) => Len(calls) = i

\* a request that a stage has handled to its end, without the handshake
C7_NoHandshake == Finished /\ entered # <<>> /\ TokenCalls = {}

\* C7 as the claim states it: at most two sequential outbound calls, two
\* only on the handshake path, exactly one otherwise, none repeated.
C7_OneOrTwoCalls ==
    /\ C7_Sequential
    /\ C7_NoHandshake => Len(calls) = 1

\* the requests that end without any outbound call: an OPTIONS request that
\* the API stage answers, and a request whose generic target is no URL
C7_Preflight == request.method = "OPTIONS" /\ entered[Len(entered)] = "api"
C7_NoTarget ==
    /\ entered[Len(entered)] = "generic"
    /\ ~TargetIsValid(WithScheme(originalUrl.pathname))

\* C7, amended: at most two sequential outbound calls, two only on the
\* handshake path (probe, then token request), none repeated after a
\* failure; otherwise exactly one, except that none is made for an OPTIONS
\* request answered by the API stage and for a request whose generic target
\* is not a URL (handleRequest fails before any fetch).
C7_CallsPerRequest ==
    /\ C7_Sequential
    /\ C7_NoHandshake =>
          Len(calls) = IF C7_Preflight \/ C7_NoTarget THEN 0 ELSE 1

C7_Witness ==
    /\ pc = "responded"
    /\ Len(calls) = 2 /\ Len(replies) = 2

-----------------------------------------------------------------------------
(* C8 *)

\* the extra headers each stage hands to the upstream fetcher
C8_Extra(stage) ==
    CASE stage = "registry" -> {"WWW-Authenticate"}
      [] stage = "api" -> {"x-goog-api-client", "x-goog-api-key", "Authorization"}
      [] OTHER -> {}

\* C8: every outbound request built by the upstream fetcher carries exactly
\* the inbound headers whose name is in {Accept, Content-Type,
\* Content-Length, accept-encoding, User-Agent} or among the caller's extra
\* headers, with their values, and no other inbound header.
C8_OnlyAllowedHeadersForwarded ==
    \A i \in 1..Len(calls) :
        calls[i].kind \in {"probe", "forward"} =>
            LET allowed == { LowerCase(a) :
                             a \in {"Accept", "Content-Type", "Content-Length",
                                    "accept-encoding", "User-Agent"}
                                   \cup C8_Extra(calls[i].stage) }
            IN  /\ DOMAIN calls[i].headers = DOMAIN request.headers \cap allowed
                /\ \A n \in DOMAIN calls[i].headers : calls[i].headers[n] = request.headers[n]

-----------------------------------------------------------------------------
(* C9 *)

C9_Case ==
    /\ OnApiHost /\ request.method = "OPTIONS"
    /\ "api" \in Members(entered)

\* C9: an OPTIONS request to a host of the API route table that reaches the
\* API stage is answered with status 200, an empty body and only the CORS
\* headers, and no outbound call is made for it, whatever its path and query.
C9_PreflightShortCircuit ==
    C9_Case =>
        /\ pc = "responded"
        /\ response.status = 200
        /\ response.body = <<>>
        /\ response.headers = CorsHeaders
        /\ calls = <<>> /\ replies = <<>>

C9_Witness ==
    /\ C9_Case
    /\ pc = "responded"
    /\ originalUrl.pathname = <<"a", "v2", "b">>
    /\ originalUrl.search = << <<"x", "1">> >>

-----------------------------------------------------------------------------
(* C10 *)

\* C10: every response the proxy sends carries the CORS headers.
C10_EveryResponseHasCors ==
    pc = "responded" => HasCors(response.headers)

-----------------------------------------------------------------------------
(* C11 *)

\* the value of the quoted attribute  name="value"  of a header, or the mark
\* of its absence
RECURSIVE C11_Attribute(_, _)
C11_Attribute(tokens, name) ==
    IF Len(tokens) < 3 THEN "\\absent"
    ELSE IF tokens[1] = name /\ tokens[2] = EqQuote
    THEN (IF tokens[3] = Quote THEN "" ELSE tokens[3])
    ELSE C11_Attribute(Tail(tokens), name)

\* C11: parseAuthenticate returns a challenge only for a header that carries
\* a quoted realm attribute and a quoted service attribute, both non-empty,
\* and then realm is the value of the realm attribute and service the value
\* of the service attribute; for every other header it fails.  (Stated of
\* the headers handleAuth hands to it: the WWW-Authenticate of a 401 probe.)
C11_ParsesNamedAttributes ==
    /\ OnRegistryHost /\ originalUrl.pathname = <<"v2", "auth">>
    /\ Probed /\ probe.status = 401
    /\ "www-authenticate" \in DOMAIN probe.headers
    /\ Str(probe.headers["www-authenticate"]) # ""
    => LET header == probe.headers["www-authenticate"]
           realm == C11_Attribute(header, "realm")
           service == C11_Attribute(header, "service")
           parsed == parseAuthenticate(header)
       IN  IF realm \notin {"\\absent", ""} /\ service \notin {"\\absent", ""}
           THEN parsed = [realm |-> realm, service |-> service]
           ELSE IsError(parsed)

-----------------------------------------------------------------------------
(* C12 *)

\* a Location value that is an absolute URL (the others of the model are
\* paths that begin with a slash)
C12_IsAbsolute(location) == location # <<>> /\ location[1] \in {"https://", "http://"}

\* the URL that the Location value L denotes relative to the upstream target
C12_Denoted(L, target) ==
    IF C12_IsAbsolute(L) THEN Str(L) ELSE target.origin \o Str(L)

\* the target handleRequest derives when the client follows a Location of the
\* form <origin>/<rest>: the rest, with https:// put before it unless it has
\* a scheme
C12_DerivedTarget(location) ==
    LET rest == SubSeq(location, 3, Len(location))
    IN  IF C12_IsAbsolute(rest) THEN Str(rest) ELSE "https://" \o Str(rest)

\* C12: an upstream response with a redirect status and a Location value L
\* is not followed; the client receives the same status and a Location
\* rooted at the proxy's origin whose derived target, when the client follows
\* it, is the URL that L denotes relative to the upstream target.
C12_RedirectReentersProxy ==
    /\ Len(calls) = 1 /\ calls[1].kind \in {"probe", "forward"}
    /\ Len(replies) = 1 /\ ~IsError(replies[1])
    /\ replies[1].status \in {301, 302, 303, 307, 308}
    /\ "location" \in DOMAIN replies[1].headers
    => /\ calls[1].redirect = "manual"
       /\ pc = "responded"
       /\ response.status = replies[1].status
       /\ "location" \in DOMAIN response.headers
       /\ LET location == response.headers["location"]
          IN  /\ Len(location) >= 3
              /\ location[1] = Origin(originalUrl) /\ location[2] = "/"
              /\ C12_DerivedTarget(location) =
                    C12_Denoted(replies[1].headers["location"], calls[1].url)

-----------------------------------------------------------------------------
(* C13 *)

\* the derived target is empty: the path is "/" and there is no query
C13_TargetEmpty == originalUrl.pathname = <<>> /\ originalUrl.search = <<>>

\* C13: when the derived target is empty the homepage is served (one fetch of
\* the asset, its page or the error page as the response) and none of the
\* registry, API and generic stages is entered, whatever the hostname and
\* the method; when it is not empty the homepage is never fetched or served.
C13_HomepageIffEmptyTarget ==
    Handling =>
        IF C13_TargetEmpty
        THEN /\ entered = <<>> /\ returned = <<>>
             /\ Len(calls) = 1 /\ calls[1].kind = "home"
             /\ pc \in {"generateHomePage", "responded"}
             /\ pc = "responded" => producer = "home"
        ELSE /\ \A i \in 1..Len(calls) : calls[i].kind # "home"
             /\ pc # "generateHomePage"
             /\ producer # "home"

C13_Witness ==
    /\ pc = "responded" /\ producer = "home"
    /\ request.method = "OPTIONS"
    /\ originalUrl.hostname = <<"both", "proxy", "example">>
    /\ response.status = 200

-----------------------------------------------------------------------------
(* C14 *)

\* C14: on a registry host, a request whose path is neither /v2/ nor /v2/auth
\* is handled by the registry stage exactly when the path starts with /v2/:
\* then it is forwarded with one outbound call to <upstream><path>, without
\* probe and token request and with compression passthrough; a path that
\* does not start with /v2/ is not forwarded to the registry upstream and
\* the registry stage returns not-applicable.
C14_DirectForwardIffV2Prefix ==
    /\ OnRegistryHost
    /\ originalUrl.pathname \notin {<<"v2", "">>, <<"v2", "auth">>}
    /\ "registry" \in Members(entered)
    => LET upstream == getRoutes(ROUTES, originalUrl.hostname)
           startsWithV2 == Len(originalUrl.pathname) >= 2 /\ originalUrl.pathname[1] = "v2"
       IN  IF startsWithV2
           THEN /\ returned = <<>>
                /\ Len(calls) = 1
                /\ calls[1].kind = "forward" /\ calls[1].stage = "registry"
                /\ calls[1].url.origin \o calls[1].url.pathname =
                      upstream.origin \o upstream.path \o Pathname(originalUrl)
                /\ locals.skipCompression
           ELSE /\ "registry" \in Members(returned)
                /\ \A i \in 1..Len(calls) : calls[i].stage # "registry"

-----------------------------------------------------------------------------
(* C15 *)

\* what handleRequest does for a request handled alone, given the replies to
\* its outbound calls: the response it returns, or the failure it ends in
C15_Alone(req, reps) ==
    LET url == req.url
        reg == handleContainerRegistryRequestStart(req)
        api == handleAPIRequestStart(req)
        gen == genericStart(req)
        stage == IF reg.kind # "null" THEN reg ELSE IF api.kind # "null" THEN api ELSE gen
        fetched == fetchAndModifyResponse(reps[1], url, stage.call.url, {}, stage.skipCompression)
        auth == handleAuth(fetched, url)
    IN  IF TargetIsEmpty(url)
        THEN [kind |-> "response", response |-> generateHomePage(reps[1])]
        ELSE IF stage.kind = "response" THEN [kind |-> "response", response |-> stage.response]
        ELSE IF stage.kind = "throw" THEN [kind |-> "throw"]
        ELSE IF stage.next = "handleV2Auth"
        THEN [kind |-> "response", response |-> handleV2Auth(fetched, url)]
        ELSE IF stage.next = "handleAuth"
        THEN IF auth.kind = "fetch"
             THEN IF IsError(reps[2]) THEN [kind |-> "throw"]
                  ELSE [kind |-> "response", response |-> AsResponse(reps[2])]
             ELSE auth
        ELSE [kind |-> "response", response |-> fetched]

\* C15: requests are handled independently: however the handling of several
\* requests interleaves at their awaits, each request that ends has the
\* outcome (the response, or the failure) it would have if handled alone
\* with the same upstream replies, and the invocations that wait keep what
\* they had when they were left.
C15_HandledIndependently ==
    /\ Finished =>
          LET alone == C15_Alone(request, replies)
          IN  /\ pc = "responded" <=> alone.kind = "response"
              /\ pc = "responded" => response = alone.response
    /\ \A i \in 1..Len(suspended) :
          /\ suspended[i].pc \notin {"idle", "responded", "rejected"}
          /\ suspended[i].response = NoResponse
          /\ Len(suspended[i].calls) = Len(suspended[i].replies) + 1
             \/ suspended[i].calls = <<>>

\* a generic request ended with its rewritten page while a registry request
\* waits for the token endpoint
C15_Witness ==
    /\ Len(suspended) = 1
    /\ suspended[1].pc = "fetchToken"
    /\ pc = "responded" /\ producer = "generic"
    /\ response.status = 200
    /\ Len(replies) = 1

-----------------------------------------------------------------------------
(* C16 *)

\* C16: for a non-redirect upstream response whose Content-Type contains
\* text/html, the value of every href, src and action attribute that begins
\* with "/" or "http" is replaced by the proxy origin, a slash and the value
\* resolved against the upstream target, and every other attribute value and
\* all other text reach the client unchanged.
C16_OnlyLinkAttributesRewritten ==
    /\ Len(calls) = 1 /\ calls[1].kind = "forward"
    /\ Len(replies) = 1 /\ ~IsError(replies[1])
    /\ replies[1].status \notin {301, 302, 303, 307, 308}
    /\ "content-type" \in DOMAIN replies[1].headers
    /\ Includes(replies[1].headers["content-type"], "text/html")
    => /\ pc = "responded"
       /\ Len(response.body) = Len(replies[1].body)
       /\ \A i \in 1..Len(replies[1].body) :
             LET node == replies[1].body[i]
                 resolved == IF node.lead = "/" THEN calls[1].url.origin \o "/" \o node.rest
                             ELSE node.lead \o node.rest
             IN  IF node.attr \in {"href", "src", "action"} /\ node.lead \in {"/", "http"}
                 THEN /\ response.body[i].attr = node.attr
                      /\ response.body[i].lead \o response.body[i].rest =
                            Origin(originalUrl) \o "/" \o resolved
                 ELSE response.body[i] = node

-----------------------------------------------------------------------------
(* C17 *)

\* C17: every target that isGitHubUrl accepts is sent to the CDN mirror: the
\* outbound URL is the mirror base followed by the path of the target in
\* which "@" stands for the first /blob/ or /raw/, it has no blob or raw
\* segment left, and the predicate does not accept it again (so that the
\* normalization leaves its own output unchanged).
C17_GitHubTargetsGoToMirror ==
    /\ Len(calls) >= 1 /\ calls[1].stage = "generic"
    /\ isGitHubUrl(WithScheme(originalUrl.pathname), originalUrl.search)
    => LET u == ReplaceBlob(WithScheme(originalUrl.pathname))
           path == SubSeq(u, 4, Len(u))
       IN  /\ calls[1].url.origin \o calls[1].url.pathname =
                 GITHUB_BASE_URL \o "/" \o JoinWith(path, "/")
           /\ \A i \in 1..Len(path) : path[i] \notin {"blob", "raw"}
           /\ ~isGitHubUrl(<<"https:", "", "cdn.jsdelivr.net", "gh">> \o path, originalUrl.search)

-----------------------------------------------------------------------------
(* C18 *)

C18_Case ==
    /\ OnRegistryHost /\ originalUrl.pathname = <<"v2", "">>
    /\ pc = "responded" /\ response.status = 401

\* C18: on a registry host with path /v2/, every response with status 401
\* that the client receives carries the proxy's own challenge, with the
\* realm <origin of the inbound request>/v2/auth; the WWW-Authenticate of the
\* upstream is never relayed.
C18_OwnChallengeOnEvery401 ==
    C18_Case =>
        /\ "www-authenticate" \in DOMAIN response.headers
        /\ QuotedValues(response.headers["www-authenticate"]) =
              <<Origin(originalUrl) \o "/v2/auth", "cloudflare-docker-proxy">>
        /\ C11_Attribute(response.headers["www-authenticate"], "realm") =
              Origin(originalUrl) \o "/v2/auth"

C18_Witness ==
    /\ C18_Case
    /\ Probed
    /\ "www-authenticate" \in DOMAIN probe.headers
    /\ probe.headers["www-authenticate"] = WwwValid

-----------------------------------------------------------------------------
(* C19 *)

\* C19: every request forwarded to the upstream path that corresponds to the
\* inbound path (a direct registry forward, an API forward, a generic
\* forward) carries the query of the inbound request: the same parameters,
\* with the same values, in the same order.
C19_QueryReachesUpstream ==
    \A i \in 1..Len(calls) :
        calls[i].kind = "forward" => calls[i].url.search = originalUrl.search

-----------------------------------------------------------------------------
(* C20 *)

\* C20: a redirect response of the upstream is relayed with its status, and
\* with a Location header only when the upstream's response carries one.
C20_LocationOnlyWhenUpstreamHasOne ==
    /\ Len(calls) = 1 /\ calls[1].kind \in {"probe", "forward"}
    /\ Len(replies) = 1 /\ ~IsError(replies[1])
    /\ replies[1].status \in {301, 302, 303, 307, 308}
    => /\ pc = "responded"
       /\ response.status = replies[1].status
       /\ "location" \in DOMAIN response.headers <=> "location" \in DOMAIN replies[1].headers

====
